---- MODULE Spec2Model ----
(***************************************************************************)
(* Model of quicknlp/modules/transformer.py.                                *)
(*                                                                         *)
(* A tensor is modelled by its shape, by the set of input positions each   *)
(* of its positions (first axis) was computed from, and by the list of     *)
(* layers and front-end stages that produced it.  The attention kernel,    *)
(* layer normalisation, the embeddings and get_list live outside           *)
(* transformer.py and are modelled by their contracts.                     *)
(*                                                                         *)
(* A behaviour constructs one component and then runs any number of        *)
(* forward passes on it.  Sequences have at least one position.            *)
(***************************************************************************)
EXTENDS Integers, Sequences, FiniteSets, TLC

VARIABLES obj, op, args, outcome, result

vars == <<obj, op, args, outcome, result>>

\* ---------------------------------------------------------------- bounds
MaxLen == 3
MaxLayers == 2

Dims == {4, 5}
LayerHeads == {1, 2, 3}
StackDims == {4}
StackHeads == {1, 2}
StackFFN == {8}

Lens == 1..MaxLen
\* Batch entries are computed independently of each other.
Batches == {1, 2}

\* --------------------------------------------------------------- helpers
Min(a, b) == IF a <= b THEN a ELSE b

Range(s) == {s[k] : k \in 1..Len(s)}

\* Python s[:n] for n >= 0.
Slice(s, n) == SubSeq(s, 1, Min(n, Len(s)))

\* Lists of length 0..n over S.
ListsUpTo(S, n) == UNION {[1..m -> S] : m \in 0..n}

\* --------------------------------------------------------------- tensors
\* The value an operation leaves behind when it raised.
Failed == [shape |-> <<>>, deps |-> <<>>, id |-> <<>>, pre |-> <<>>]

\* A caller-supplied float tensor of shape (sl, bs, dim); k tells the
\* tensors of one call apart.
Input(src, k, sl, bs, dim) ==
    [shape |-> <<sl, bs, dim>>,
     deps  |-> [i \in 1..sl |-> {[src |-> src, k |-> k, at |-> i]}],
     id    |-> <<>>,
     pre   |-> <<>>]

\* A caller-supplied integer token tensor of shape (sl, bs).
Tokens(src, sl, bs) ==
    [shape |-> <<sl, bs>>,
     deps  |-> [i \in 1..sl |-> {[src |-> src, k |-> 0, at |-> i]}],
     id    |-> <<>>,
     pre   |-> <<>>]

\* Iterating a tensor yields its slices along the first axis.
Step(t, i) == [shape |-> Tail(t.shape), deps |-> t.deps[i]]

\* t[:n]
SliceTensor(t, n) ==
    [t EXCEPT !.shape = <<Min(n, Len(t.deps))>> \o Tail(t.shape),
              !.deps  = Slice(t.deps, n)]

\* tr.stack(steps, dim=0): needs a non-empty list of equally shaped steps.
Stack(steps) ==
    IF steps = <<>> \/ \E k \in 1..Len(steps) : steps[k].shape # steps[1].shape
    THEN Failed
    ELSE [shape |-> <<Len(steps)>> \o steps[1].shape,
          deps  |-> [k \in 1..Len(steps) |-> steps[k].deps],
          id    |-> <<>>,
          pre   |-> <<>>]

\* a + b (no broadcasting arises in this module: shapes must agree).
Add(a, b) ==
    IF a = Failed \/ b = Failed \/ a.shape # b.shape
    THEN Failed
    ELSE [a EXCEPT !.deps = [i \in 1..Len(a.deps) |-> a.deps[i] \cup b.deps[i]]]

\* t.view(-1, dim): rows of width dim; row (i-1)*bs + b is batch entry b of
\* position i.
View2D(t, dim) ==
    IF t = Failed \/ (t.shape[1] * t.shape[2] * t.shape[3]) % dim # 0
    THEN Failed
    ELSE LET rows == (t.shape[1] * t.shape[2] * t.shape[3]) \div dim
             per  == rows \div t.shape[1]
         IN  [t EXCEPT !.shape = <<rows, dim>>,
                       !.deps  = [r \in 1..rows |-> t.deps[((r - 1) \div per) + 1]]]

\* t.view(shape) for a 3-d shape (sl, bs, dim).
View3D(t, shape) ==
    IF t = Failed \/ t.shape[1] * t.shape[2] # shape[1] * shape[2] * shape[3]
    THEN Failed
    ELSE LET per == t.shape[1] \div shape[1]
         IN  [t EXCEPT !.shape = shape,
                       !.deps  = [i \in 1..shape[1] |->
                                    UNION {t.deps[r] : r \in ((i - 1) * per + 1)..(i * per)}]]

\* ------------------------------------------------- collaborating modules
\* LayerNorm: normalises every position over its features.
LayerNormInit(features) == [features |-> features]

LayerNorm(self, x) == x

\* MultiHeadAttention(num_heads, nhid, keys_dim, values_dim, query_dim, p)
MultiHeadAttentionInit(num_heads, nhid, keys_dim, values_dim, query_dim) ==
    [num_heads |-> num_heads, nhid |-> nhid, keys_dim |-> keys_dim,
     values_dim |-> values_dim, query_dim |-> query_dim]

\* One attention call: a query step [bs, dim] against the keys and values it
\* is handed; the result is a step of the query's shape computed from the
\* query and from every key and value position handed in.
MultiHeadAttention(self, query, keys, values) ==
    [shape |-> query.shape,
     deps  |-> query.deps \cup UNION Range(keys.deps) \cup UNION Range(values.deps)]

\* NormEmbeddings: token lookup, scaled; (sl, bs) -> (sl, bs, in_features).
NormEmbeddings(in_features, tokens) ==
    [tokens EXCEPT !.shape = tokens.shape \o <<in_features>>,
                   !.pre   = Append(@, "NormEmbeddings")]

\* PositionalEncoding: adds the position signal, shape preserved.
PositionalEncoding(in_features, x) ==
    [x EXCEPT !.pre = Append(@, "PositionalEncoding")]

\* get_list(value, multiplier): a scalar is repeated, a list must have
\* exactly multiplier elements.
get_list(value, multiplier) ==
    IF value.list
    THEN [raised |-> Len(value.v) # multiplier, value |-> value.v]
    ELSE [raised |-> FALSE, value |-> [i \in 1..multiplier |-> value.v]]

\* ---------------------------------------------------- PositionFeedForward
PositionFeedForwardInit(in_features, out_features, nhid) ==
    [in_features |-> in_features, out_features |-> out_features, nhid |-> nhid]

\* Linear, ReLU, Linear, Dropout act on the last axis of every row.
PositionFeedForward(self, inputs) ==
    IF inputs = Failed \/ inputs.shape[Len(inputs.shape)] # self.in_features
    THEN Failed
    ELSE [inputs EXCEPT !.shape[Len(inputs.shape)] = self.out_features]

\* ---------------------------------------------------------------- SubLayer
\* attr is the name under which the owner registers the module.
SubLayerInit(in_features) ==
    [in_features |-> <<in_features>>,
     layer_norm  |-> LayerNormInit(<<in_features>>),
     attr        |-> 0]

\* ---------------------------------------------------------- AttentionLayer
AttentionLayerInit(in_features, num_heads) ==
    [kind      |-> "AttentionLayer",
     dim       |-> in_features,
     nhid      |-> in_features \div num_heads,
     attention |-> MultiHeadAttentionInit(num_heads, in_features \div num_heads,
                                          in_features, in_features, in_features),
     attr      |-> "self"]

\* Variant: the mask flag is ignored.
mask_index_unmasked(input_tensor, index, mask) == input_tensor.shape[1]

mask_index(input_tensor, index, mask) ==
    IF mask THEN index ELSE input_tensor.shape[1]

\* One iteration of the loop of AttentionLayer.forward: the attention output
\* of query position index, and the record of the call that produced it.
AttentionStep(self, input_tensor, keys_vector, values_vector, mask, index) ==
    LET m      == mask_index(input_tensor, index, mask)
        keys   == SliceTensor(keys_vector, m)
        values == SliceTensor(values_vector, m)
    IN  [out  |-> MultiHeadAttention(self.attention, Step(input_tensor, index), keys, values),
         call |-> [sublayer |-> -1,
                   module   |-> self.attr,
                   mask     |-> mask,
                   query    |-> index,
                   keys     |-> 1..Len(keys.deps)]]

\* self_attention_outputs stacked along a new first axis, with the calls
\* that produced them.
StackSteps(steps) ==
    [out   |-> Stack([index \in 1..Len(steps) |-> steps[index].out]),
     calls |-> [index \in 1..Len(steps) |-> steps[index].call]]

\* Variant: the loop runs over the keys instead of the queries.
AttentionLayerForward_overkeys(self, input_tensor, keys_vector, values_vector, mask) ==
    StackSteps([index \in 1..Len(keys_vector.deps) |->
                  AttentionStep(self, keys_vector, keys_vector, values_vector, mask, index)])

AttentionLayerForward(self, input_tensor, keys_vector, values_vector, mask) ==
    StackSteps([index \in 1..Len(input_tensor.deps) |->
                  AttentionStep(self, input_tensor, keys_vector, values_vector, mask, index)])

\* The record of a feed-forward call.
LinearCall == [sublayer |-> -1, module |-> "linear", mask |-> FALSE, query |-> 0, keys |-> {}]

\* The transformations handed to SubLayer.forward:
\*   lambda x: self.attention(x, x, x, mask=mask)
SelfAttention(module, mask) == [fn |-> "self", module |-> module, mask |-> mask]

\*   lambda x: self.attention(x, encoder_input, encoder_input)
CrossAttention(module, encoder_input) ==
    [fn |-> "cross", module |-> module, keys |-> encoder_input, values |-> encoder_input]

\*   self.linear
Linear(module) == [fn |-> "linear", module |-> module]

\* sublayer(x)
Apply(sublayer, x) ==
    IF sublayer.fn = "linear"
    THEN [out |-> PositionFeedForward(sublayer.module, x), calls |-> <<LinearCall>>]
    ELSE LET self_attention == sublayer.fn = "self"
         IN  AttentionLayerForward(sublayer.module, x,
                                   IF self_attention THEN x ELSE sublayer.keys,
                                   IF self_attention THEN x ELSE sublayer.values,
                                   IF self_attention THEN sublayer.mask ELSE FALSE)

\* input_tensor + sublayer(layer_norm(input_tensor)); the calls the wrapped
\* transformation made are kept, marked with the sublayer that made them.
Residual(self, input_tensor, r) ==
    [out   |-> Add(input_tensor, r.out),
     calls |-> [k \in 1..Len(r.calls) |-> [r.calls[k] EXCEPT !.sublayer = self.attr]]]

SubLayerForward(self, input_tensor, sublayer) ==
    Residual(self, input_tensor, Apply(sublayer, LayerNorm(self.layer_norm, input_tensor)))

\* The produced tensor remembers the layer that produced it.
Stamp(t, who) == IF t = Failed THEN Failed ELSE [t EXCEPT !.id = Append(@, who)]

\* -------------------------------------------------------- TransformerLayer
TransformerLayerInit(in_features, num_heads, ffnhid) ==
    [kind      |-> "TransformerLayer",
     dim       |-> in_features,
     nhid      |-> in_features \div num_heads,
     attention |-> [AttentionLayerInit(in_features, num_heads) EXCEPT !.attr = "attention"],
     linear    |-> PositionFeedForwardInit(in_features, in_features, ffnhid),
     sublayers |-> [k \in 1..2 |-> [SubLayerInit(in_features) EXCEPT !.attr = k - 1]],
     attr      |-> 0]

TransformerLayerForward(self, input_tensor) ==
    LET shape == input_tensor.shape
        attention_output ==
            SubLayerForward(self.sublayers[1], input_tensor,
                SelfAttention(self.attention, FALSE))
        ff ==
            SubLayerForward(self.sublayers[2], View2D(attention_output.out, self.dim),
                Linear(self.linear))
        ff_output == View3D(ff.out, shape)
    IN  [out   |-> Stamp(ff_output, self.attr),
         calls |-> attention_output.calls \o ff.calls]

\* ------------------------------------------------- TransformerLayerDecoder
TransformerLayerDecoderInit(in_features, num_heads, ffnhid) ==
    LET super == TransformerLayerInit(in_features, num_heads, ffnhid)
        decoder_attention ==
            [AttentionLayerInit(in_features, num_heads) EXCEPT !.attr = "decoder_attention"]
        sublayers == Append(super.sublayers, [SubLayerInit(in_features) EXCEPT !.attr = 2])
    IN  [kind              |-> "TransformerLayerDecoder",
         dim               |-> super.dim,
         nhid              |-> super.nhid,
         attention         |-> super.attention,
         linear            |-> super.linear,
         sublayers         |-> sublayers,
         decoder_attention |-> decoder_attention,
         attr              |-> 0]

\* Variant: the self-attention sublayer is called without mask=True.
TransformerLayerDecoderForward_nomask(self, inputs) ==
    LET encoder_input == inputs[1]
        decoder_input == inputs[2]
        shape == decoder_input.shape
        att_output ==
            SubLayerForward(self.sublayers[1], decoder_input,
                SelfAttention(self.attention, FALSE))
        dec_att_output ==
            SubLayerForward(self.sublayers[2], att_output.out,
                CrossAttention(self.attention, encoder_input))
        ff ==
            SubLayerForward(self.sublayers[3], View2D(dec_att_output.out, self.dim),
                Linear(self.linear))
        ff_output == View3D(ff.out, shape)
    IN  [out   |-> Stamp(ff_output, self.attr),
         calls |-> att_output.calls \o dec_att_output.calls \o ff.calls]

\* Variant: the cross-attention sublayer calls self.decoder_attention.
TransformerLayerDecoderForward_decatt(self, inputs) ==
    LET encoder_input == inputs[1]
        decoder_input == inputs[2]
        shape == decoder_input.shape
        att_output ==
            SubLayerForward(self.sublayers[1], decoder_input,
                SelfAttention(self.attention, TRUE))
        dec_att_output ==
            SubLayerForward(self.sublayers[2], att_output.out,
                CrossAttention(self.decoder_attention, encoder_input))
        ff ==
            SubLayerForward(self.sublayers[3], View2D(dec_att_output.out, self.dim),
                Linear(self.linear))
        ff_output == View3D(ff.out, shape)
    IN  [out   |-> Stamp(ff_output, self.attr),
         calls |-> att_output.calls \o dec_att_output.calls \o ff.calls]

TransformerLayerDecoderForward(self, inputs) ==
    LET encoder_input == inputs[1]
        decoder_input == inputs[2]
        shape == decoder_input.shape
        att_output ==
            SubLayerForward(self.sublayers[1], decoder_input,
                SelfAttention(self.attention, TRUE))
        dec_att_output ==
            SubLayerForward(self.sublayers[2], att_output.out,
                CrossAttention(self.attention, encoder_input))
        ff ==
            SubLayerForward(self.sublayers[3], View2D(dec_att_output.out, self.dim),
                Linear(self.linear))
        ff_output == View3D(ff.out, shape)
    IN  [out   |-> Stamp(ff_output, self.attr),
         calls |-> att_output.calls \o dec_att_output.calls \o ff.calls]

\* ------------------------------------------------------ TransformerEncoder
NoObject == [kind |-> "none"]

\* Variant: every layer is built with the first element of each list.
TransformerEncoderInit_first(num_layers, in_features, num_heads, ffnhid) ==
    LET f == get_list(ffnhid, num_layers)
        h == get_list(num_heads, num_layers)
    IN  IF f.raised \/ h.raised
        THEN [outcome |-> "AssertionError", self |-> NoObject]
        ELSE [outcome |-> "ok",
              self |-> [kind   |-> "TransformerEncoder",
                        layers |-> [i \in 1..num_layers |->
                                      [TransformerLayerInit(in_features, h.value[1], f.value[1])
                                         EXCEPT !.attr = i - 1]]]]

TransformerEncoderInit(num_layers, in_features, num_heads, ffnhid) ==
    LET f == get_list(ffnhid, num_layers)
        h == get_list(num_heads, num_layers)
    IN  IF f.raised \/ h.raised
        THEN [outcome |-> "AssertionError", self |-> NoObject]
        ELSE [outcome |-> "ok",
              self |-> [kind   |-> "TransformerEncoder",
                        layers |-> [i \in 1..num_layers |->
                                      [TransformerLayerInit(in_features, h.value[i], f.value[i])
                                         EXCEPT !.attr = i - 1]]]]

\* The loop state after a layer returned r for the input recorded in call.
Iterated(prev, r, call) ==
    IF r.out = Failed THEN [prev EXCEPT !.raised = TRUE]
    ELSE [inputs         |-> r.out,
          output_tensors |-> Append(prev.output_tensors, r.out),
          trace          |-> Append(prev.trace, call @@ [calls |-> r.calls]),
          raised         |-> FALSE]

\* One iteration of the loop of TransformerEncoder.forward.
EncoderIteration(prev, layer) ==
    IF prev.raised THEN prev
    ELSE Iterated(prev, TransformerLayerForward(layer, prev.inputs),
                  [layer |-> layer.attr, input |-> prev.inputs])

\* What a stack's forward returns, or raises, when its loop has ended.
Returned(end) ==
    IF end.raised
    THEN [outcome |-> "RuntimeError", final |-> Failed, outputs |-> <<>>, trace |-> end.trace]
    ELSE [outcome |-> "ok", final |-> end.inputs, outputs |-> end.output_tensors,
          trace |-> end.trace]

\* Variant: every layer is fed the stack input.
RECURSIVE EncoderLoop_stackinput(_, _, _)
EncoderLoop_stackinput(layers, input_tensors, k) ==
    IF k = 0
    THEN [inputs |-> input_tensors, output_tensors |-> <<>>, trace |-> <<>>, raised |-> FALSE]
    ELSE Iterated(EncoderLoop_stackinput(layers, input_tensors, k - 1),
                  TransformerLayerForward(layers[k], input_tensors),
                  [layer |-> layers[k].attr, input |-> input_tensors])

\* The loop of TransformerEncoder.forward after k iterations.
RECURSIVE EncoderLoop(_, _, _)
EncoderLoop(layers, input_tensors, k) ==
    IF k = 0
    THEN [inputs |-> input_tensors, output_tensors |-> <<>>, trace |-> <<>>, raised |-> FALSE]
    ELSE EncoderIteration(EncoderLoop(layers, input_tensors, k - 1), layers[k])

TransformerEncoderForward(self, input_tensors) ==
    Returned(EncoderLoop(self.layers, input_tensors, Len(self.layers)))

\* --------------------------------------------- TransformerEncoderEmbedding
EmbeddingsInit(in_features) ==
    [in_features |-> in_features, stages |-> <<"NormEmbeddings", "PositionalEncoding">>]

\* nn.Sequential(NormEmbeddings, PositionalEncoding)
Embeddings(self, input_tensors) ==
    PositionalEncoding(self.in_features, NormEmbeddings(self.in_features, input_tensors))

TransformerEncoderEmbeddingInit(num_layers, in_features, num_heads, ffnhid) ==
    LET super == TransformerEncoderInit(num_layers, in_features, num_heads, ffnhid)
    IN  IF super.outcome # "ok" THEN super
        ELSE [outcome |-> "ok",
              self |-> [kind       |-> "TransformerEncoderEmbedding",
                        layers     |-> super.self.layers,
                        embeddings |-> EmbeddingsInit(in_features)]]

TransformerEncoderEmbeddingForward(self, input_tensors) ==
    LET embeddings == Embeddings(self.embeddings, input_tensors)
    IN  TransformerEncoderForward(self, embeddings)

\* ------------------------------------------------------ TransformerDecoder
TransformerDecoderInit(num_layers, in_features, num_heads, ffnhid) ==
    LET f == get_list(ffnhid, num_layers)
        h == get_list(num_heads, num_layers)
    IN  IF f.raised \/ h.raised
        THEN [outcome |-> "AssertionError", self |-> NoObject]
        ELSE [outcome |-> "ok",
              self |-> [kind   |-> "TransformerDecoder",
                        layers |-> [i \in 1..num_layers |->
                                      [TransformerLayerDecoderInit(in_features, h.value[i],
                                                                   f.value[i])
                                         EXCEPT !.attr = i - 1]]]]

\* Variant: every layer is paired with the first encoder output.
Zip_first(a, b) == [k \in 1..Min(Len(a), Len(b)) |-> <<a[1], b[k]>>]

\* zip(a, b): pairs up to the shorter of the two.
Zip(a, b) == [k \in 1..Min(Len(a), Len(b)) |-> <<a[k], b[k]>>]

\* One iteration of the loop of TransformerDecoder.forward.
DecoderIteration(prev, enc_inputs, layer) ==
    IF prev.raised THEN prev
    ELSE Iterated(prev, TransformerLayerDecoderForward(layer, <<enc_inputs, prev.inputs>>),
                  [layer |-> layer.attr, enc |-> enc_inputs, input |-> prev.inputs])

\* The loop of TransformerDecoder.forward after k iterations.
RECURSIVE DecoderLoop(_, _, _)
DecoderLoop(pairs, decoder_inputs, k) ==
    IF k = 0
    THEN [inputs |-> decoder_inputs, output_tensors |-> <<>>, trace |-> <<>>, raised |-> FALSE]
    ELSE DecoderIteration(DecoderLoop(pairs, decoder_inputs, k - 1), pairs[k][1], pairs[k][2])

\* forward(*inputs): inputs is the tuple of positional arguments.
TransformerDecoderForward(self, inputs) ==
    IF Len(inputs) # 2
    THEN [outcome |-> "ValueError", final |-> Failed, outputs |-> <<>>, trace |-> <<>>]
    ELSE LET encoder_inputs == inputs[1]
             decoder_inputs == inputs[2]
             pairs == Zip(encoder_inputs, self.layers)
         IN  Returned(DecoderLoop(pairs, decoder_inputs, Len(pairs)))

\* --------------------------------------------- TransformerDecoderEmbedding
TransformerDecoderEmbeddingInit(num_layers, in_features, num_heads, ffnhid) ==
    LET super == TransformerDecoderInit(num_layers, in_features, num_heads, ffnhid)
    IN  IF super.outcome # "ok" THEN super
        ELSE [outcome |-> "ok",
              self |-> [kind       |-> "TransformerDecoderEmbedding",
                        layers     |-> super.self.layers,
                        embeddings |-> EmbeddingsInit(in_features)]]

\* super().forward(embeddings): the base forward gets one positional argument.
TransformerDecoderEmbeddingForward(self, input_tensors) ==
    LET embeddings == Embeddings(self.embeddings, input_tensors)
    IN  TransformerDecoderForward(self, <<embeddings>>)

\* ---------------------------------------------------------------- actions
\* A Python hyperparameter value: one number, or a list of numbers.
Scalar(n) == [list |-> FALSE, v |-> n]

List(l) == [list |-> TRUE, v |-> l]

NoResult == [none |-> TRUE]

Init ==
    /\ obj = NoObject
    /\ op = "init"
    /\ args = NoResult
    /\ outcome = "ok"
    /\ result = NoResult

\* AttentionLayer(in_features, num_heads, p)
NewAttentionLayer ==
    /\ op = "init"
    /\ \E d \in Dims, h \in LayerHeads :
         /\ obj' = AttentionLayerInit(d, h)
         /\ args' = [in_features |-> d, num_heads |-> h]
    /\ op' = "AttentionLayer"
    /\ outcome' = "ok"
    /\ result' = obj'

\* TransformerLayer(in_features, num_heads, ffnhid, p)
NewTransformerLayer ==
    /\ op = "init"
    /\ \E d \in Dims, h \in LayerHeads, f \in StackFFN :
         /\ obj' = TransformerLayerInit(d, h, f)
         /\ args' = [in_features |-> d, num_heads |-> h]
    /\ op' = "TransformerLayer"
    /\ outcome' = "ok"
    /\ result' = obj'

\* TransformerLayerDecoder(in_features, num_heads, ffnhid, p)
NewTransformerLayerDecoder ==
    /\ op = "init"
    /\ \E d \in Dims, h \in LayerHeads, f \in StackFFN :
         /\ obj' = TransformerLayerDecoderInit(d, h, f)
         /\ args' = [in_features |-> d, num_heads |-> h]
    /\ op' = "TransformerLayerDecoder"
    /\ outcome' = "ok"
    /\ result' = obj'

\* The frame shared by the four stack constructors.
Constructed(name, r, n, d, h, f) ==
    /\ obj' = r.self
    /\ op' = name
    /\ args' = [num_layers |-> n, in_features |-> d, num_heads |-> h, ffnhid |-> f]
    /\ outcome' = r.outcome
    /\ result' = r.self

NewTransformerEncoder ==
    /\ op = "init"
    /\ \E n \in 0..MaxLayers, d \in StackDims,
          hl \in BOOLEAN, hs \in StackHeads, hv \in ListsUpTo(StackHeads, MaxLayers + 1),
          fl \in BOOLEAN, fs \in StackFFN, fv \in ListsUpTo(StackFFN, MaxLayers + 1) :
         LET h == IF hl THEN List(hv) ELSE Scalar(hs)
             f == IF fl THEN List(fv) ELSE Scalar(fs)
         IN  Constructed("TransformerEncoder", TransformerEncoderInit(n, d, h, f), n, d, h, f)

NewTransformerEncoderEmbedding ==
    /\ op = "init"
    /\ \E n \in 0..MaxLayers, d \in StackDims,
          hl \in BOOLEAN, hs \in StackHeads, hv \in ListsUpTo(StackHeads, MaxLayers + 1),
          fl \in BOOLEAN, fs \in StackFFN, fv \in ListsUpTo(StackFFN, MaxLayers + 1) :
         LET h == IF hl THEN List(hv) ELSE Scalar(hs)
             f == IF fl THEN List(fv) ELSE Scalar(fs)
         IN  Constructed("TransformerEncoderEmbedding",
                         TransformerEncoderEmbeddingInit(n, d, h, f), n, d, h, f)

NewTransformerDecoder ==
    /\ op = "init"
    /\ \E n \in 0..MaxLayers, d \in StackDims,
          hl \in BOOLEAN, hs \in StackHeads, hv \in ListsUpTo(StackHeads, MaxLayers + 1),
          fl \in BOOLEAN, fs \in StackFFN, fv \in ListsUpTo(StackFFN, MaxLayers + 1) :
         LET h == IF hl THEN List(hv) ELSE Scalar(hs)
             f == IF fl THEN List(fv) ELSE Scalar(fs)
         IN  Constructed("TransformerDecoder", TransformerDecoderInit(n, d, h, f), n, d, h, f)

NewTransformerDecoderEmbedding ==
    /\ op = "init"
    /\ \E n \in 0..MaxLayers, d \in StackDims,
          hl \in BOOLEAN, hs \in StackHeads, hv \in ListsUpTo(StackHeads, MaxLayers + 1),
          fl \in BOOLEAN, fs \in StackFFN, fv \in ListsUpTo(StackFFN, MaxLayers + 1) :
         LET h == IF hl THEN List(hv) ELSE Scalar(hs)
             f == IF fl THEN List(fv) ELSE Scalar(fs)
         IN  Constructed("TransformerDecoderEmbedding",
                         TransformerDecoderEmbeddingInit(n, d, h, f), n, d, h, f)

\* AttentionLayer.forward(input_tensor, keys_vector, values_vector, mask)
AttentionLayerCall ==
    /\ obj.kind = "AttentionLayer"
    /\ \E ql \in Lens, kl \in Lens, bs \in Batches, mask \in BOOLEAN :
         LET q == Input("q", 0, ql, bs, obj.dim)
             k == Input("k", 1, kl, bs, obj.dim)
             v == Input("v", 2, kl, bs, obj.dim)
         IN  /\ args' = [input_tensor |-> q, keys_vector |-> k, values_vector |-> v,
                         mask |-> mask]
             /\ result' = AttentionLayerForward(obj, q, k, v, mask)
             /\ outcome' = IF result'.out = Failed THEN "RuntimeError" ELSE "ok"
    /\ op' = "AttentionLayer.forward"
    /\ UNCHANGED obj

\* TransformerLayer.forward(input_tensor)
TransformerLayerCall ==
    /\ obj.kind = "TransformerLayer"
    /\ \E sl \in Lens, bs \in Batches :
         LET x == Input("enc", 0, sl, bs, obj.dim)
         IN  /\ args' = [input_tensor |-> x]
             /\ result' = TransformerLayerForward(obj, x)
             /\ outcome' = IF result'.out = Failed THEN "RuntimeError" ELSE "ok"
    /\ op' = "TransformerLayer.forward"
    /\ UNCHANGED obj

\* TransformerLayerDecoder.forward(encoder_input, decoder_input)
TransformerLayerDecoderCall ==
    /\ obj.kind = "TransformerLayerDecoder"
    /\ \E esl \in Lens, sl \in Lens, bs \in Batches :
         LET e == Input("enc", 1, esl, bs, obj.dim)
             d == Input("dec", 0, sl, bs, obj.dim)
         IN  /\ args' = [encoder_input |-> e, decoder_input |-> d]
             /\ result' = TransformerLayerDecoderForward(obj, <<e, d>>)
             /\ outcome' = IF result'.out = Failed THEN "RuntimeError" ELSE "ok"
    /\ op' = "TransformerLayerDecoder.forward"
    /\ UNCHANGED obj

\* TransformerEncoder.forward(input_tensors)
TransformerEncoderCall ==
    /\ obj.kind = "TransformerEncoder"
    /\ \E sl \in Lens, bs \in Batches, d \in StackDims :
         LET x == Input("enc", 0, sl, bs, d)
         IN  /\ args' = [input_tensors |-> x]
             /\ result' = TransformerEncoderForward(obj, x)
             /\ outcome' = result'.outcome
    /\ op' = "TransformerEncoder.forward"
    /\ UNCHANGED obj

\* TransformerEncoderEmbedding.forward(input_tensors)
TransformerEncoderEmbeddingCall ==
    /\ obj.kind = "TransformerEncoderEmbedding"
    /\ \E sl \in Lens, bs \in Batches :
         LET x == Tokens("enc", sl, bs)
         IN  /\ args' = [input_tensors |-> x]
             /\ result' = TransformerEncoderEmbeddingForward(obj, x)
             /\ outcome' = result'.outcome
    /\ op' = "TransformerEncoderEmbedding.forward"
    /\ UNCHANGED obj

\* TransformerDecoder.forward(encoder_inputs, decoder_inputs)
TransformerDecoderCall ==
    /\ obj.kind = "TransformerDecoder"
    /\ \E m \in 0..(MaxLayers + 1), esl \in Lens, sl \in Lens, bs \in Batches,
          d \in StackDims :
         LET es == [k \in 1..m |-> Input("enc", k, esl, bs, d)]
             x  == Input("dec", 0, sl, bs, d)
         IN  /\ args' = [encoder_inputs |-> es, decoder_inputs |-> x]
             /\ result' = TransformerDecoderForward(obj, <<es, x>>)
             /\ outcome' = result'.outcome
    /\ op' = "TransformerDecoder.forward"
    /\ UNCHANGED obj

\* TransformerDecoderEmbedding.forward(input_tensors)
TransformerDecoderEmbeddingCall ==
    /\ obj.kind = "TransformerDecoderEmbedding"
    /\ \E sl \in Lens, bs \in Batches :
         LET x == Tokens("dec", sl, bs)
         IN  /\ args' = [input_tensors |-> x]
             /\ result' = TransformerDecoderEmbeddingForward(obj, x)
             /\ outcome' = result'.outcome
    /\ op' = "TransformerDecoderEmbedding.forward"
    /\ UNCHANGED obj

Next ==
    \/ NewAttentionLayer
    \/ NewTransformerLayer
    \/ NewTransformerLayerDecoder
    \/ NewTransformerEncoder
    \/ NewTransformerEncoderEmbedding
    \/ NewTransformerDecoder
    \/ NewTransformerDecoderEmbedding
    \/ AttentionLayerCall
    \/ TransformerLayerCall
    \/ TransformerLayerDecoderCall
    \/ TransformerEncoderCall
    \/ TransformerEncoderEmbeddingCall
    \/ TransformerDecoderCall
    \/ TransformerDecoderEmbeddingCall

Spec == Init /\ [][Next]_vars

\* ---------------------------------------------------------- properties
QueryLen == args.input_tensor.shape[1]

KeyLen == args.keys_vector.shape[1]

\* The positions of source src that position i of tensor t was computed from.
From(t, i, src) == {s.at : s \in {d \in t.deps[i] : d.src = src}}

\* C1: AttentionLayer.forward with mask=True hands the attention call for
\* query position i exactly the key/value positions 1..min(i, key length),
\* so output position i is computed from no key/value position after i.
C1_CausalPrefix ==
    (op = "AttentionLayer.forward" /\ args.mask) =>
        /\ Len(result.calls) = QueryLen
        /\ \A i \in 1..QueryLen :
             /\ result.calls[i].query = i
             /\ result.calls[i].keys = 1..Min(i, KeyLen)
             /\ \A j \in result.calls[i].keys : j <= i
             /\ From(result.out, i, "k") \subseteq 1..i
             /\ From(result.out, i, "v") \subseteq 1..i

C1_Witness ==
    /\ op = "AttentionLayer.forward"
    /\ args.mask
    /\ QueryLen = 2
    /\ KeyLen = 3
    /\ result.calls[1].keys = {1}
    /\ result.calls[2].keys = {1, 2}
    /\ From(result.out, 2, "k") = {1, 2}

\* The cross-attention calls (sublayer 1) of one decoder-layer forward.
CrossCalls(calls) == {k \in 1..Len(calls) : calls[k].sublayer = 1}

\* C2: AttentionLayer.forward with mask=False hands every query position the
\* full key/value sequence 1..key length, whatever the two lengths are, also
\* in the cross-attention of a decoder layer over encoder_input.
C2_FullVisibility ==
    /\ (op = "AttentionLayer.forward" /\ ~args.mask) =>
          \A i \in 1..QueryLen : result.calls[i].keys = 1..KeyLen
    /\ (op = "TransformerLayerDecoder.forward") =>
          \A k \in CrossCalls(result.calls) :
             result.calls[k].keys = 1..args.encoder_input.shape[1]

\* The decoder layers and the encoder outputs of a TransformerDecoder call.
NumLayers == Len(obj.layers)

NumEnc == Len(args.encoder_inputs)

\* C3: TransformerDecoder.forward pairs layer i with encoder output i, feeds
\* layer i the output of layer i-1 (the decoder input first), stops after
\* min(N, M) pairs without an error, returns min(N, M) per-layer outputs and
\* the last of them (the decoder input when there is none) as final output.
C3_DecoderZip ==
    (op = "TransformerDecoder.forward") =>
        LET n == Min(NumLayers, NumEnc)
            fed(k) == IF k = 1 THEN args.decoder_inputs ELSE result.outputs[k - 1]
        IN  /\ outcome = "ok"
            /\ Len(result.outputs) = n
            /\ Len(result.trace) = n
            /\ \A k \in 1..n :
                 /\ result.trace[k].layer = obj.layers[k].attr
                 /\ result.trace[k].layer = k - 1
                 /\ result.trace[k].enc = args.encoder_inputs[k]
                 /\ result.trace[k].input = fed(k)
                 /\ result.outputs[k] =
                      TransformerLayerDecoderForward(
                         obj.layers[k], <<args.encoder_inputs[k], fed(k)>>).out
            /\ result.final = IF n = 0 THEN args.decoder_inputs ELSE result.outputs[n]

C3_Witness ==
    /\ op = "TransformerDecoder.forward"
    /\ NumLayers = 2
    /\ NumEnc = 3
    /\ outcome = "ok"
    /\ Len(result.outputs) = 2
    /\ result.trace[2].enc = args.encoder_inputs[2]
    /\ result.final = result.outputs[2]

\* C4: TransformerEncoder.forward applies its layers in list order, layer k
\* on the output of layer k-1 (the stack input first), returns one output per
\* layer in that order and the last of them (the stack input when the stack
\* is empty) as final output.
C4_EncoderChain ==
    (op = "TransformerEncoder.forward") =>
        LET fed(k) == IF k = 1 THEN args.input_tensors ELSE result.outputs[k - 1]
        IN  /\ outcome = "ok"
            /\ Len(result.outputs) = NumLayers
            /\ Len(result.trace) = NumLayers
            /\ \A k \in 1..NumLayers :
                 /\ result.trace[k].layer = k - 1
                 /\ result.trace[k].input = fed(k)
                 /\ result.outputs[k] = TransformerLayerForward(obj.layers[k], fed(k)).out
                 /\ result.outputs[k].id = [j \in 1..k |-> j - 1]
            /\ result.final =
                 IF NumLayers = 0 THEN args.input_tensors ELSE result.outputs[NumLayers]

C4_Witness ==
    /\ op = "TransformerEncoder.forward"
    /\ NumLayers = 2
    /\ outcome = "ok"
    /\ result.trace[2].input = result.outputs[1]
    /\ result.final = result.outputs[2]
    /\ result.final.id = <<0, 1>>

\* C5: a decoder stack of N layers given N encoder outputs returns N
\* per-layer outputs, each of the decoder input's shape, whatever the decoder
\* and encoder lengths; AttentionLayer.forward returns one output per query
\* position, in query order, whatever the key length and the mask flag.
C5_Shapes ==
    /\ (op = "TransformerDecoder.forward" /\ NumEnc = NumLayers) =>
          /\ outcome = "ok"
          /\ Len(result.outputs) = NumLayers
          /\ \A k \in 1..NumLayers :
               result.outputs[k].shape = args.decoder_inputs.shape
    /\ (op = "TransformerLayerDecoder.forward") =>
          /\ outcome = "ok"
          /\ result.out.shape = args.decoder_input.shape
    /\ (op = "AttentionLayer.forward") =>
          /\ outcome = "ok"
          /\ result.out.shape = args.input_tensor.shape
          /\ Len(result.out.deps) = QueryLen
          /\ \A i \in 1..QueryLen : From(result.out, i, "q") = {i}

C5_Witness ==
    /\ op = "TransformerDecoder.forward"
    /\ NumLayers = 2
    /\ NumEnc = 2
    /\ args.encoder_inputs[1].shape[1] = 3
    /\ args.decoder_inputs.shape = <<2, 2, 4>>
    /\ Len(result.outputs) = 2
    /\ result.outputs[2].shape = <<2, 2, 4>>

\* What the stack's first layer was fed, when it has a layer.
FrontEndApplied ==
    /\ Len(result.trace) = NumLayers
    /\ NumLayers > 0 =>
          /\ result.trace[1].input.pre = <<"NormEmbeddings", "PositionalEncoding">>
          /\ result.trace[1].input.shape = args.input_tensors.shape \o <<obj.embeddings.in_features>>
    /\ result.final.pre = <<"NormEmbeddings", "PositionalEncoding">>

\* C6: a forward call of either embedding front-end applies the token
\* embedding, then the positional encoding, runs the base stack on the result
\* and returns the stack's final output and per-layer outputs, not an error.
C6_EmbeddingFrontEnds ==
    (op \in {"TransformerEncoderEmbedding.forward", "TransformerDecoderEmbedding.forward"}) =>
        /\ outcome = "ok"
        /\ FrontEndApplied

\* C7: a layer constructor given a feature dimension that num_heads does not
\* divide fails; no layer is produced whose per-head width times num_heads
\* differs from the feature dimension.
C7_HeadsDivideDim ==
    (op \in {"AttentionLayer", "TransformerLayer", "TransformerLayerDecoder"}) =>
        /\ (args.in_features % args.num_heads # 0) => (outcome # "ok" /\ obj = NoObject)
        /\ (outcome = "ok") => (obj.nhid * args.num_heads = obj.dim)

StackConstructors ==
    {"TransformerEncoder", "TransformerDecoder",
     "TransformerEncoderEmbedding", "TransformerDecoderEmbedding"}

\* Element i of a hyperparameter as the caller gave it.
Element(value, i) == IF value.list THEN value.v[i] ELSE value.v

WrongLength(value) == value.list /\ Len(value.v) # args.num_layers

\* C8: a stack constructor given a num_heads or ffnhid list whose length is
\* not num_layers fails and yields no stack; otherwise the stack has
\* num_layers layers and layer i is built with element i of each list, a
\* scalar standing for num_layers copies of it.
C8_PerLayerLists ==
    (op \in StackConstructors) =>
        IF WrongLength(args.num_heads) \/ WrongLength(args.ffnhid)
        THEN outcome # "ok" /\ obj = NoObject
        ELSE /\ outcome = "ok"
             /\ Len(obj.layers) = args.num_layers
             /\ \A i \in 1..args.num_layers :
                  /\ obj.layers[i].attention.attention.num_heads = Element(args.num_heads, i)
                  /\ obj.layers[i].nhid = args.in_features \div Element(args.num_heads, i)
                  /\ obj.layers[i].linear.nhid = Element(args.ffnhid, i)
                  /\ obj.layers[i].dim = args.in_features

C8_Witness ==
    /\ op = "TransformerDecoder"
    /\ args.num_layers = 2
    /\ args.num_heads = List(<<1, 2>>)
    /\ ~args.ffnhid.list
    /\ outcome = "ok"
    /\ obj.layers[1].attention.attention.num_heads = 1
    /\ obj.layers[2].attention.attention.num_heads = 2

\* Position i of t was computed from decoder-input positions 1..i only.
Causal(t) == \A i \in 1..Len(t.deps) : From(t, i, "dec") \subseteq 1..i

\* C9: with the encoder outputs fixed, position i of the final output and of
\* every per-layer output of a TransformerDecoder depends on decoder-input
\* positions 1..i only.
C9_DecoderCausal ==
    /\ (op = "TransformerDecoder.forward") =>
          /\ Causal(result.final)
          /\ \A k \in 1..Len(result.outputs) : Causal(result.outputs[k])
    /\ (op = "TransformerLayerDecoder.forward") => Causal(result.out)

C9_Witness ==
    /\ op = "TransformerDecoder.forward"
    /\ NumLayers = 2
    /\ Len(result.outputs) = 2
    /\ args.decoder_inputs.shape[1] = 3
    /\ From(result.final, 1, "dec") = {1}
    /\ From(result.final, 2, "dec") = {1, 2}
    /\ From(result.final, 3, "dec") = {1, 2, 3}

\* The calls of one decoder-layer forward over sl positions: sl masked calls
\* of self.attention in sublayer 0, sl unmasked calls of self.attention in
\* sublayer 1, one call of the feed-forward in sublayer 2.
DecoderLayerCalls(calls, sl) ==
    /\ Len(calls) = 2 * sl + 1
    /\ \A j \in 1..sl :
         /\ calls[j].sublayer = 0
         /\ calls[j].module = "attention"
         /\ calls[j].mask
         /\ calls[sl + j].sublayer = 1
         /\ calls[sl + j].module = "attention"
         /\ ~calls[sl + j].mask
    /\ calls[2 * sl + 1].sublayer = 2
    /\ calls[2 * sl + 1].module = "linear"
    /\ \A k \in 1..Len(calls) : calls[k].module # "decoder_attention"

\* C10: every TransformerLayerDecoder.forward runs causal self-attention,
\* cross-attention and feed-forward in that order, both attentions through
\* self.attention; the decoder_attention module it owns is never called.
C10_SharedAttention ==
    /\ (op = "TransformerLayerDecoder.forward") =>
          /\ obj.decoder_attention.attr = "decoder_attention"
          /\ DecoderLayerCalls(result.calls, args.decoder_input.shape[1])
    /\ (op = "TransformerDecoder.forward") =>
          \A k \in 1..Len(result.trace) :
             /\ obj.layers[k].decoder_attention.attr = "decoder_attention"
             /\ DecoderLayerCalls(result.trace[k].calls, args.decoder_inputs.shape[1])

C10_Witness ==
    /\ op = "TransformerLayerDecoder.forward"
    /\ args.decoder_input.shape[1] = 2
    /\ Len(result.calls) = 5
    /\ result.calls[3].module = "attention"
    /\ result.calls[3].sublayer = 1
    /\ obj.decoder_attention.kind = "AttentionLayer"

====
